---- MODULE Spec2Model ----
(***************************************************************************)
(* Model of src/src/system/import_analyzer.py: the import extractor, the   *)
(* top-level package resolver, the two-tier standard-library classifier,   *)
(* the report builder (analyze_python_code) and the command line entry     *)
(* point (main).                                                           *)
(*                                                                         *)
(* A Python str is a sequence of one-character strings, so that split,     *)
(* startswith, the "in" test and sorted() are computed character by        *)
(* character.  None and the empty string are both the empty sequence where *)
(* the code only tests truthiness (node.module, spec.origin).              *)
(***************************************************************************)
EXTENDS Integers, Sequences, FiniteSets, TLC

VARIABLES pc, argv, fs_exists, file_path, code_text, find_spec, result,
          exc, stdout, exit_status, opened, parsed

vars == <<pc, argv, fs_exists, file_path, code_text, find_spec, result,
          exc, stdout, exit_status, opened, parsed>>

\* ------------------------------------------------------------------ bounds
\* statements in one block of the analysed source
MaxStmts == 2
\* largest line number the parser reports
MaxLine == 2

\* ------------------------------------------------------------- str helpers
\* the characters used, in code point order (what sorted() compares)
Alphabet == <<"-", ".", "/", "0", "1", "2", "3", "4", "5", "6", "7", "8", "9", "_",
              "a", "b", "c", "d", "e", "f", "g", "h", "i", "j", "k", "l", "m",
              "n", "o", "p", "q", "r", "s", "t", "u", "v", "w", "x", "y", "z">>

ord(c) == CHOOSE i \in DOMAIN Alphabet : Alphabet[i] = c

\* s < t for two str: the first differing character decides, else the length
RECURSIVE str_lt(_, _)
str_lt(s, t) ==
    IF t = <<>> THEN FALSE
    ELSE IF s = <<>> THEN TRUE
    ELSE IF Head(s) # Head(t) THEN ord(Head(s)) < ord(Head(t))
    ELSE str_lt(Tail(s), Tail(t))

\* sorted(S) for a set of str
RECURSIVE sorted(_)
sorted(S) ==
    IF S = {} THEN <<>>
    ELSE LET least == CHOOSE x \in S : \A y \in S \ {x} : str_lt(x, y)
         IN  <<least>> \o sorted(S \ {least})

\* sub in s, for a one-character sub
contains(s, ch) == \E i \in DOMAIN s : s[i] = ch

\* s.split(sep): the list of the pieces between the separators
RECURSIVE split(_, _)
split(s, sep) ==
    IF ~contains(s, sep) THEN <<s>>
    ELSE LET i == CHOOSE k \in DOMAIN s :
                     s[k] = sep /\ \A j \in 1..(k - 1) : s[j] # sep
         IN  <<SubSeq(s, 1, i - 1)>> \o split(SubSeq(s, i + 1, Len(s)), sep)

\* s.startswith(prefix)
startswith(s, prefix) ==
    /\ Len(prefix) <= Len(s)
    /\ SubSeq(s, 1, Len(prefix)) = prefix

\* the elements of a list
Range(q) == {q[i] : i \in DOMAIN q}

\* --------------------------------------------------------- syntax tree
\* ast nodes, reduced to what the visitor reads: Import.names (the alias
\* names), ImportFrom.module (None for "from . import x"), and the child
\* statements of a compound statement
Node(kind, names, module, body) ==
    [kind |-> kind, names |-> names, module |-> module, body |-> body]

Import(names) == Node("Import", names, <<>>, <<>>)
ImportFrom(module) == Node("ImportFrom", <<>>, module, <<>>)
Pass == Node("Pass", <<>>, <<>>, <<>>)
FunctionDef(body) == Node("FunctionDef", <<>>, <<>>, body)
Module(body) == Node("Module", <<>>, <<>>, body)

\* ------------------------------------------------------- ImportAnalyzer
ImportAnalyzer_init == [imports |-> {}, from_imports |-> {}]

RECURSIVE visit(_, _)
RECURSIVE visit_all(_, _)

\* NodeVisitor.generic_visit: visit every child node
generic_visit(self, node) == visit_all(self, node.body)

visit_Import(self, node) ==
    generic_visit([self EXCEPT !.imports = @ \cup Range(node.names)], node)

\* variant: the module of a from-import is never recorded
visit_ImportFrom_never_adds(self, node) == generic_visit(self, node)

\* a from-import that names no module adds nothing
visit_ImportFrom(self, node) ==
    IF node.module # <<>>
    THEN generic_visit([self EXCEPT !.from_imports = @ \cup {node.module}], node)
    ELSE generic_visit(self, node)

\* NodeVisitor.visit: dispatch on the node's class
visit(self, node) ==
    CASE node.kind = "Import" -> visit_Import(self, node)
      [] node.kind = "ImportFrom" -> visit_ImportFrom(self, node)
      [] OTHER -> generic_visit(self, node)

visit_all(self, nodes) ==
    IF nodes = <<>> THEN self
    ELSE visit_all(visit(self, Head(nodes)), Tail(nodes))

\* ------------------------------------------------ get_top_level_package
get_top_level_package(module_name) ==
    IF contains(module_name, ".")
    THEN split(module_name, ".")[1]
    ELSE module_name

\* -------------------------------------------------- is_standard_library
stdlib_modules ==
    { <<"o","s">>, <<"s","y","s">>, <<"j","s","o","n">>, <<"a","s","t">>, <<"c","o","l","l","e","c","t","i","o","n","s">>, <<"i","t","e","r","t","o","o","l","s">>,
      <<"f","u","n","c","t","o","o","l","s">>, <<"d","a","t","e","t","i","m","e">>, <<"t","i","m","e">>, <<"r","e">>, <<"m","a","t","h">>, <<"r","a","n","d","o","m">>,
      <<"h","a","s","h","l","i","b">>, <<"b","a","s","e","6","4">>, <<"u","r","l","l","i","b">>, <<"h","t","t","p">>, <<"s","o","c","k","e","t">>, <<"t","h","r","e","a","d","i","n","g">>,
      <<"s","u","b","p","r","o","c","e","s","s">>, <<"p","a","t","h","l","i","b">>, <<"i","o">>, <<"c","s","v">>, <<"x","m","l">>, <<"h","t","m","l">>,
      <<"e","m","a","i","l">>, <<"l","o","g","g","i","n","g">>, <<"a","r","g","p","a","r","s","e">>, <<"c","o","n","f","i","g","p","a","r","s","e","r">>, <<"p","i","c","k","l","e">>, <<"s","q","l","i","t","e","3">>,
      <<"u","u","i","d">>, <<"c","o","p","y">>, <<"w","e","a","k","r","e","f">>, <<"g","c">>, <<"t","r","a","c","e","b","a","c","k">>, <<"w","a","r","n","i","n","g","s">>,
      <<"t","y","p","i","n","g">>, <<"e","n","u","m">>, <<"d","a","t","a","c","l","a","s","s","e","s">>, <<"c","o","n","t","e","x","t","l","i","b">>, <<"o","p","e","r","a","t","o","r">>, <<"h","e","a","p","q">>,
      <<"b","i","s","e","c","t">>, <<"a","r","r","a","y">>, <<"s","t","r","u","c","t">>, <<"c","o","d","e","c","s">>, <<"l","o","c","a","l","e">>, <<"g","e","t","t","e","x","t">>,
      <<"c","a","l","e","n","d","a","r">>, <<"s","c","h","e","d">>, <<"q","u","e","u","e">>, <<"t","h","r","e","a","d","i","n","g">>, <<"m","u","l","t","i","p","r","o","c","e","s","s","i","n","g">>, <<"c","o","n","c","u","r","r","e","n","t">>,
      <<"a","s","y","n","c","i","o">>, <<"s","s","l">>, <<"f","t","p","l","i","b">>, <<"p","o","p","l","i","b">>, <<"i","m","a","p","l","i","b">>, <<"s","m","t","p","l","i","b">>,
      <<"t","e","l","n","e","t","l","i","b">>, <<"s","o","c","k","e","t","s","e","r","v","e","r">>, <<"x","m","l","r","p","c">>, <<"g","z","i","p">>, <<"b","z","2">>, <<"l","z","m","a">>,
      <<"z","i","p","f","i","l","e">>, <<"t","a","r","f","i","l","e">>, <<"t","e","m","p","f","i","l","e">>, <<"s","h","u","t","i","l">>, <<"g","l","o","b">>, <<"f","n","m","a","t","c","h">>,
      <<"s","t","a","t">>, <<"f","i","l","e","c","m","p">>, <<"m","m","a","p">> }

\* os.path.dirname(os.__file__) of the interpreter that runs the analyzer
stdlib_path == <<"/","l","/","p","3",".","1">>

\* what importlib.util.find_spec does for a name: returns None, returns a
\* spec (origin None is the empty str), or raises
NotFound == [kind |-> "none", origin |-> <<>>, exc |-> ""]
Found(origin) == [kind |-> "spec", origin |-> origin, exc |-> ""]
Raises(e) == [kind |-> "raise", origin |-> <<>>, exc |-> e]

\* the exceptions the except clause of is_standard_library names
CaughtLookupErrors == {"ImportError", "ModuleNotFoundError", "ValueError"}

\* the result of a call: a returned value, or the exception that left it
Returned(v) == [raised |-> "", value |-> v]
Raised(e) == [raised |-> e, value |-> FALSE]

is_standard_library(module_name, env) ==
    LET top_level == get_top_level_package(module_name)
    IN  IF top_level \in stdlib_modules THEN Returned(TRUE)
        ELSE LET spec == env[top_level]
             IN  IF spec.kind = "raise"
                 THEN IF spec.exc \in CaughtLookupErrors
                      THEN Returned(FALSE)
                      ELSE Raised(spec.exc)
                 ELSE IF spec.kind = "spec" /\ spec.origin # <<>>
                 THEN Returned(startswith(spec.origin, stdlib_path))
                 ELSE Returned(FALSE)

\* ---------------------------------------------------- analyze_python_code
\* the analysed text, given by what ast.parse does with it: parse = "ok" and
\* the tree, or the name of the exception ast.parse raises (lineno is the
\* SyntaxError's lineno attribute: <<n>>, or <<>> for None)
Parsed(tree) == [parse |-> "ok", lineno |-> <<>>, tree |-> tree]
Rejected(e, lineno) == [parse |-> e, lineno |-> lineno, tree |-> Module(<<>>)]

all_modules_of(analyzer) == analyzer.imports \cup analyzer.from_imports

top_level_packages_of(all_modules) ==
    {get_top_level_package(module) : module \in all_modules}

\* the first exception a call of is_standard_library raises in the loop over
\* sorted(top_level_packages), "" when none does
classification_error(packages, env) ==
    LET raising == SelectSeq(sorted(packages),
                             LAMBDA p : is_standard_library(p, env).raised # "")
    IN  IF raising = <<>> THEN ""
        ELSE is_standard_library(Head(raising), env).raised

standard_modules_of(packages, env) ==
    SelectSeq(sorted(packages), LAMBDA p : is_standard_library(p, env).value)

\* variant: the append to external_packages is not under the else
external_packages_no_else(packages, env) == sorted(packages)

external_packages_of(packages, env) ==
    SelectSeq(sorted(packages), LAMBDA p : ~is_standard_library(p, env).value)

\* variant: total_imports is the sum of the two partition sizes
analysis_summary_sums_partitions(all_modules, external_packages, standard_modules) ==
    [total_imports |-> Len(external_packages) + Len(standard_modules),
     external_count |-> Len(external_packages),
     standard_count |-> Len(standard_modules)]

analysis_summary_of(all_modules, external_packages, standard_modules) ==
    [total_imports |-> Cardinality(all_modules),
     external_count |-> Len(external_packages),
     standard_count |-> Len(standard_modules)]

success_report(all_modules, packages, env) ==
    LET external_packages == external_packages_of(packages, env)
        standard_modules == standard_modules_of(packages, env)
    IN  [success |-> TRUE,
         external_packages |-> external_packages,
         standard_modules |-> standard_modules,
         all_imports |-> sorted(all_modules),
         analysis_summary |->
             analysis_summary_of(all_modules, external_packages, standard_modules)]

\* variant: the SyntaxError report without line_number
syntax_error_report_no_line(e) ==
    [success |-> FALSE,
     error |-> "syntax error: str(e)",
     error_type |-> "SyntaxError"]

\* except SyntaxError as e
syntax_error_report(e) ==
    [success |-> FALSE,
     error |-> "syntax error: str(e)",
     error_type |-> "SyntaxError",
     line_number |-> e.lineno]

\* except Exception as e
analysis_error_report(type_name) ==
    [success |-> FALSE,
     error |-> "analysis error: str(e)",
     error_type |-> type_name]

analyze_python_code(text, env) ==
    IF text.parse = "SyntaxError" THEN syntax_error_report(text)
    ELSE IF text.parse # "ok" THEN analysis_error_report(text.parse)
    ELSE LET analyzer == visit(ImportAnalyzer_init, text.tree)
             all_modules == all_modules_of(analyzer)
             top_level_packages == top_level_packages_of(all_modules)
             raised == classification_error(top_level_packages, env)
         IN  IF raised # "" THEN analysis_error_report(raised)
             ELSE success_report(all_modules, top_level_packages, env)

\* ------------------------------------------------------------ the inputs
ModuleNames == {<<"o","s">>, <<"o","s",".","p","a","t","h">>, <<"n","u","m","p","y">>}

SimpleStatements ==
    {Import(<<m>>) : m \in ModuleNames}
        \cup {Import(<<<<"n","u","m","p","y">>, <<"a",".","b">>>>)}
        \cup {ImportFrom(<<"a",".","b">>), ImportFrom(<<>>)}
        \cup {Pass}

Statements == SimpleStatements \cup {FunctionDef(<<s>>) : s \in SimpleStatements}

Blocks == UNION {[1..n -> Statements] : n \in 0..MaxStmts}

\* exceptions of ast.parse other than SyntaxError
OtherParseErrors == {"MemoryError", "RecursionError", "ValueError"}

CodeTexts ==
    {Parsed(Module(b)) : b \in Blocks}
        \cup {Rejected("SyntaxError", <<>>)}
        \cup {Rejected("SyntaxError", <<n>>) : n \in 1..MaxLine}
        \cup {Rejected(e, <<>>) : e \in OtherParseErrors}

\* what find_spec may do for a package that misses the static set
LookupOutcomes ==
    {NotFound, Found(<<>>),
     Found(<<"/","l","/","p","3",".","1","/","z",".","p","y">>), Found(<<"/","l","/","p","3",".","1","1","/","z",".","p","y">>), Found(<<"/","s","/","z",".","p","y">>),
     Raises("ValueError"), Raises("OSError")}

\* the packages of a text that reach the dynamic tier
dynamic_packages(text) ==
    IF text.parse # "ok" THEN {}
    ELSE top_level_packages_of(all_modules_of(visit(ImportAnalyzer_init, text.tree)))
             \ stdlib_modules

\* exceptions of open() and f.read()
ReadErrors == {"FileNotFoundError", "PermissionError", "UnicodeDecodeError"}

Argvs == {<<<<"x",".","p","y">>>>, <<<<"x",".","p","y">>, <<"a",".","p","y">>>>, <<<<"x",".","p","y">>, <<"b",".","p","y">>, <<"a",".","p","y">>>>}

\* json.dumps(obj, ensure_ascii=...): the object written and whether every
\* non-ASCII character is escaped
json_dumps(obj, ensure_ascii) == [obj |-> obj, ensure_ascii |-> ensure_ascii]

\* ------------------------------------------------------------------ main
Init ==
    /\ pc = "main"
    /\ argv \in Argvs
    /\ fs_exists \in BOOLEAN
    /\ file_path = <<>>
    /\ code_text = Rejected("", <<>>)
    /\ find_spec = <<>>
    /\ result = [success |-> FALSE]
    /\ exc = ""
    /\ stdout = <<>>
    /\ exit_status = -1
    /\ opened = FALSE
    /\ parsed = FALSE

\* variant: the usage report is followed by sys.exit(1)
MainArgumentError_exits_1 ==
    /\ pc = "main"
    /\ Len(argv) < 2
    /\ stdout' = Append(stdout, json_dumps(
           [success |-> FALSE, error |-> "usage", error_type |-> "ArgumentError"],
           TRUE))
    /\ pc' = "exited"
    /\ exit_status' = 1
    /\ UNCHANGED <<argv, fs_exists, file_path, code_text, find_spec, result, exc,
                   opened, parsed>>

\* if len(sys.argv) < 2: print the usage report and return
MainArgumentError ==
    /\ pc = "main"
    /\ Len(argv) < 2
    /\ stdout' = Append(stdout, json_dumps(
           [success |-> FALSE, error |-> "usage", error_type |-> "ArgumentError"],
           TRUE))
    /\ pc' = "returned"
    /\ UNCHANGED <<argv, fs_exists, file_path, code_text, find_spec, result, exc,
                   exit_status, opened, parsed>>

\* file_path = sys.argv[1]
MainFilePath ==
    /\ pc = "main"
    /\ Len(argv) >= 2
    /\ file_path' = argv[2]
    /\ pc' = "exists"
    /\ UNCHANGED <<argv, fs_exists, code_text, find_spec, result, exc, stdout,
                   exit_status, opened, parsed>>

\* variant: the report of a missing file is not followed by return
MainFileNotFound_no_return ==
    /\ pc = "exists"
    /\ ~fs_exists
    /\ stdout' = Append(stdout, json_dumps(
           [success |-> FALSE, error |-> "no such file: file_path",
            error_type |-> "FileNotFoundError"],
           TRUE))
    /\ pc' = "try"
    /\ UNCHANGED <<argv, fs_exists, file_path, code_text, find_spec, result, exc,
                   exit_status, opened, parsed>>

\* if not os.path.exists(file_path): print the report and return
MainFileNotFound ==
    /\ pc = "exists"
    /\ ~fs_exists
    /\ stdout' = Append(stdout, json_dumps(
           [success |-> FALSE, error |-> "no such file: file_path",
            error_type |-> "FileNotFoundError"],
           TRUE))
    /\ pc' = "returned"
    /\ UNCHANGED <<argv, fs_exists, file_path, code_text, find_spec, result, exc,
                   exit_status, opened, parsed>>

\* the path exists: enter the try block
MainFileExists ==
    /\ pc = "exists"
    /\ fs_exists
    /\ pc' = "try"
    /\ UNCHANGED <<argv, fs_exists, file_path, code_text, find_spec, result, exc,
                   stdout, exit_status, opened, parsed>>

\* with open(file_path, 'r', encoding='utf-8') as f: code_text = f.read()
MainReadFile ==
    /\ pc = "try"
    /\ opened' = TRUE
    /\ \/ /\ code_text' \in CodeTexts
          /\ pc' = "analyze"
          /\ exc' = exc
       \/ /\ exc' \in ReadErrors
          /\ pc' = "except"
          /\ code_text' = code_text
    /\ UNCHANGED <<argv, fs_exists, file_path, find_spec, result, stdout,
                   exit_status, parsed>>

\* result = analyze_python_code(code_text); result['analyzed_file'] = file_path
MainAnalyze ==
    /\ pc = "analyze"
    /\ parsed' = TRUE
    /\ \E env \in [dynamic_packages(code_text) -> LookupOutcomes] :
          /\ find_spec' = env
          /\ result' = [analyzed_file |-> file_path]
                           @@ analyze_python_code(code_text, env)
    /\ pc' = "emit"
    /\ UNCHANGED <<argv, fs_exists, file_path, code_text, exc, stdout,
                   exit_status, opened>>

\* variant: the result is written before the print raises
MainEmitResult_writes_then_raises ==
    /\ pc = "emit"
    /\ stdout' = Append(stdout, json_dumps(result, FALSE))
    /\ \/ /\ pc' = "returned"
          /\ exc' = exc
       \/ /\ exc' = "UnicodeEncodeError"
          /\ pc' = "except"
    /\ UNCHANGED <<argv, fs_exists, file_path, code_text, find_spec, result,
                   exit_status, opened, parsed>>

\* print(json.dumps(result, ensure_ascii=False, indent=2)): the text is
\* written whole, or the stream cannot encode it (a non-ASCII character in
\* the message or the path) and nothing is written
MainEmitResult ==
    /\ pc = "emit"
    /\ \/ /\ stdout' = Append(stdout, json_dumps(result, FALSE))
          /\ pc' = "returned"
          /\ exc' = exc
       \/ /\ exc' = "UnicodeEncodeError"
          /\ pc' = "except"
          /\ stdout' = stdout
    /\ UNCHANGED <<argv, fs_exists, file_path, code_text, find_spec, result,
                   exit_status, opened, parsed>>

\* variant: the handler's report without analyzed_file
MainExcept_omits_file ==
    /\ pc = "except"
    /\ stdout' = Append(stdout, json_dumps(
           [success |-> FALSE, error |-> "file processing error: str(e)",
            error_type |-> exc],
           TRUE))
    /\ exc' = ""
    /\ pc' = "returned"
    /\ UNCHANGED <<argv, fs_exists, file_path, code_text, find_spec, result,
                   exit_status, opened, parsed>>

\* except Exception as e: print the file processing report (ensure_ascii is
\* the default True: the text is ASCII and every stream encodes it)
MainExcept ==
    /\ pc = "except"
    /\ stdout' = Append(stdout, json_dumps(
           [success |-> FALSE, error |-> "file processing error: str(e)",
            error_type |-> exc, analyzed_file |-> file_path],
           TRUE))
    /\ exc' = ""
    /\ pc' = "returned"
    /\ UNCHANGED <<argv, fs_exists, file_path, code_text, find_spec, result,
                   exit_status, opened, parsed>>

\* main() has returned: the script ends and the interpreter exits with 0
InterpreterExit ==
    /\ pc = "returned"
    /\ exit_status' = 0
    /\ pc' = "exited"
    /\ UNCHANGED <<argv, fs_exists, file_path, code_text, find_spec, result, exc,
                   stdout, opened, parsed>>

Next ==
    \/ MainArgumentError
    \/ MainFilePath
    \/ MainFileNotFound
    \/ MainFileExists
    \/ MainReadFile
    \/ MainAnalyze
    \/ MainEmitResult
    \/ MainExcept
    \/ InterpreterExit

Spec == Init /\ [][Next]_vars


\* ------------------------------------------------------------ properties
Returned_from_main == pc \in {"returned", "exited"}

\* the one report main printed
Report == stdout[1].obj

Has(r, field) == field \in DOMAIN r

Succeeded == parsed /\ result.success

\* C1: in every success report external_packages and standard_modules are
\* disjoint, list no package twice, and together are exactly the top-level
\* packages of all_imports.
C1_Partition ==
    Succeeded =>
        LET external == Range(result.external_packages)
            standard == Range(result.standard_modules)
        IN  /\ external \cap standard = {}
            /\ external \cup standard =
                   {get_top_level_package(m) : m \in Range(result.all_imports)}
            /\ Cardinality(external) = Len(result.external_packages)
            /\ Cardinality(standard) = Len(result.standard_modules)

\* a success report with a statically standard, a dynamically standard and
\* an external package
C1_Witness ==
    /\ Succeeded
    /\ result.standard_modules = <<<<"n","u","m","p","y">>, <<"o","s">>>>
    /\ result.external_packages = <<<<"a">>>>

\* C2 as stated: the three counts are the sizes of the two partitions and
\* their sum.
C2_TotalIsSumOfPartitions ==
    Succeeded =>
        /\ result.analysis_summary.external_count = Len(result.external_packages)
        /\ result.analysis_summary.standard_count = Len(result.standard_modules)
        /\ result.analysis_summary.total_imports =
               result.analysis_summary.external_count
                   + result.analysis_summary.standard_count

\* C2 amended: external_count and standard_count are the sizes of the two
\* partitions, and total_imports is the number of distinct module paths in
\* all_imports (never less than the sum of the other two).
C2_TotalIsAllImports ==
    Succeeded =>
        /\ result.analysis_summary.external_count = Len(result.external_packages)
        /\ result.analysis_summary.standard_count = Len(result.standard_modules)
        /\ result.analysis_summary.total_imports = Len(result.all_imports)
        /\ result.analysis_summary.total_imports >=
               result.analysis_summary.external_count
                   + result.analysis_summary.standard_count

\* "import os" together with "import os.path"
C2_Witness ==
    /\ Succeeded
    /\ result.all_imports = <<<<"o","s">>, <<"o","s",".","p","a","t","h">>>>
    /\ result.analysis_summary.total_imports = 2
    /\ result.analysis_summary.standard_count = 1
    /\ result.analysis_summary.external_count = 0

\* C3: a run of main has printed exactly one JSON object once main has
\* returned and none before, an exception is pending only where the handler
\* of main is about to run, and every run goes on until the interpreter exits.
C3_ExactlyOneObject ==
    /\ Returned_from_main => Len(stdout) = 1
    /\ ~Returned_from_main => Len(stdout) = 0
    /\ exc # "" => pc = "except"
    /\ pc # "exited" => ENABLED Next
    /\ pc = "exited" => exit_status = 0

\* the run in which printing the result failed and the handler printed
C3_Witness ==
    /\ pc = "exited"
    /\ parsed
    /\ Len(stdout) = 1
    /\ Has(Report, "error_type")
    /\ Report.error_type = "UnicodeEncodeError"

\* C4 as stated: a package that misses the static set is External whenever
\* the lookup finds nothing, finds a spec without origin or raises, and the
\* analysis of a text that parses then ends in a success report.
C4_LookupFailureIsExternal ==
    (parsed /\ code_text.parse = "ok") =>
        /\ result.success
        /\ \A p \in DOMAIN find_spec :
               (find_spec[p].kind # "spec" \/ find_spec[p].origin = <<>>)
                   => p \in Range(result.external_packages)

\* C5 as stated: the exit status of the missing-argument run differs from
\* the one exit status of the runs that were given a path.
C5_ArgumentErrorExitStatusDiffers ==
    pc = "exited" =>
        /\ Len(argv) >= 2 => exit_status = 0
        /\ Len(argv) < 2 => exit_status # 0

\* C5 amended: the missing-argument run prints the ArgumentError report and
\* ends with exit status 0, the exit status of every other run.
C5_ArgumentErrorSameExitStatus ==
    /\ pc = "exited" => exit_status = 0
    /\ (Returned_from_main /\ Len(argv) < 2) =>
           /\ Report.success = FALSE
           /\ Report.error_type = "ArgumentError"

C5_Witness ==
    /\ pc = "exited"
    /\ Len(argv) < 2
    /\ exit_status = 0
    /\ Report.error_type = "ArgumentError"

\* C6: when the path does not exist main prints a FileNotFound failure report
\* without partitions, and neither opens the file nor runs the analysis.
C6_FileNotFound ==
    (Len(argv) >= 2 /\ ~fs_exists) =>
        /\ ~opened
        /\ ~parsed
        /\ Returned_from_main =>
               /\ Report.success = FALSE
               /\ Report.error_type = "FileNotFoundError"
               /\ ~Has(Report, "external_packages")
               /\ ~Has(Report, "standard_modules")

C6_Witness ==
    /\ pc = "exited"
    /\ Len(argv) >= 2
    /\ ~fs_exists
    /\ Report.error_type = "FileNotFoundError"

\* an import statement of either form anywhere in the tree
RECURSIVE has_import_statement(_)
has_import_statement(node) ==
    \/ node.kind \in {"Import", "ImportFrom"}
    \/ \E i \in DOMAIN node.body : has_import_statement(node.body[i])

\* an import statement that names a module: a direct import, or a
\* from-import with a module
RECURSIVE has_named_import(_)
has_named_import(node) ==
    \/ node.kind = "Import"
    \/ node.kind = "ImportFrom" /\ node.module # <<>>
    \/ \E i \in DOMAIN node.body : has_named_import(node.body[i])

\* C7 as stated: all_imports is non-empty exactly when the source holds an
\* import statement of either form, "from . import x" included.
C7_NonEmptyIffAnyImport ==
    Succeeded => (result.all_imports # <<>> <=> has_import_statement(code_text.tree))

\* C7 amended: all_imports is non-empty exactly when the source holds a
\* direct import or a from-import that names a module, anywhere in the tree;
\* a from-import without a module name contributes nothing.
C7_NonEmptyIffNamedImport ==
    Succeeded => (result.all_imports # <<>> <=> has_named_import(code_text.tree))

\* a nested "from a.b import x" beside "from . import x"
C7_Witness ==
    /\ Succeeded
    /\ code_text.tree.body = <<ImportFrom(<<>>), FunctionDef(<<ImportFrom(<<"a",".","b">>)>>)>>
    /\ result.all_imports = <<<<"a",".","b">>>>

\* C8: the printed report has an analyzed_file field exactly when the
\* existence check passed, and the field is the requested path.
C8_AnalyzedFile ==
    Returned_from_main =>
        /\ Has(Report, "analyzed_file") <=> (Len(argv) >= 2 /\ fs_exists)
        /\ Has(Report, "analyzed_file") => Report.analyzed_file = argv[2]

\* a read failure after the existence check passed
C8_Witness ==
    /\ pc = "exited"
    /\ ~parsed
    /\ Has(Report, "analyzed_file")
    /\ Report.error_type = "PermissionError"
    /\ Report.analyzed_file = <<"b",".","p","y">>

ReportFields == {"external_packages", "standard_modules", "all_imports",
                 "analysis_summary"}

\* C9 as stated: every text the parser rejects gives a failure report of the
\* syntax-failure kind with a message, the parser's line number when it
\* supplies one, and no partition or count field.
C9_RejectedIsSyntaxFailure ==
    (parsed /\ code_text.parse # "ok") =>
        /\ result.success = FALSE
        /\ result.error_type = "SyntaxError"
        /\ Has(result, "error")
        /\ code_text.lineno # <<>> =>
               Has(result, "line_number") /\ result.line_number = code_text.lineno
        /\ DOMAIN result \cap ReportFields = {}

\* C9 amended: every text the parser rejects gives a failure report with a
\* message and no partition or count field; when the parser raised
\* SyntaxError the kind is SyntaxError and line_number is the parser's line
\* number (None when it supplies none), and when it raised anything else the
\* kind is that exception's type name and there is no line_number field.
C9_RejectedIsFailure ==
    (parsed /\ code_text.parse # "ok") =>
        /\ result.success = FALSE
        /\ Has(result, "error")
        /\ DOMAIN result \cap ReportFields = {}
        /\ result.error_type = code_text.parse
        /\ code_text.parse = "SyntaxError" =>
               Has(result, "line_number") /\ result.line_number = code_text.lineno
        /\ code_text.parse # "SyntaxError" => ~Has(result, "line_number")

C9_Witness ==
    /\ parsed
    /\ code_text.parse = "SyntaxError"
    /\ code_text.lineno = <<2>>
    /\ result.error_type = "SyntaxError"
    /\ result.line_number = <<2>>

\* the directory is an ancestor of the path in the path hierarchy
path_is_under(path, directory) ==
    LET parts == split(path, "/")
        dir_parts == split(directory, "/")
    IN  /\ Len(dir_parts) < Len(parts)
        /\ SubSeq(parts, 1, Len(dir_parts)) = dir_parts

\* C10 as stated: a package that misses the static set is Standard only if
\* the installation directory is an ancestor of its origin.
C10_StandardOnlyUnderStdlibPath ==
    Succeeded =>
        \A p \in DOMAIN find_spec :
            p \in Range(result.standard_modules) =>
                /\ find_spec[p].kind = "spec"
                /\ path_is_under(find_spec[p].origin, stdlib_path)

====
